---- MODULE Spec2Model ----
(***************************************************************************)
(* Model of the consistent hash ring of consistent_hash_lab                *)
(* (ring.py: ConsistentHashRing, node.py: Node).                           *)
(*                                                                         *)
(* The ring keeps three fields: `ring`, a list of (hash_value, node)       *)
(* tuples kept in order by bisect.insort; `nodes`, a dict node_id -> Node; *)
(* and `hash_to_node`, a dict hash_value -> Node.  add_node, remove_node   *)
(* and get_node_for_key are actions; every method is an operator on the    *)
(* fields, translated statement by statement.  Python exceptions are       *)
(* modelled as the value of `raised`.                                      *)
(*                                                                         *)
(* The digests of the hash functions are not computed bit by bit: the      *)
(* variable `digest` holds, for every replica identifier, the value of     *)
(* hashlib.sha256 on it, drawn at Init from a small position space and     *)
(* never changed (the hash is a pure function).  For every value h of the  *)
(* position space there is a key, written "k<h>", whose digest is h.       *)
(* Every collision pattern between replicas, and between a key and a       *)
(* replica, is therefore explored.                                         *)
(*                                                                         *)
(* Spec drives the ring with add_node, remove_node and get_node_for_key    *)
(* over two nodes; SpecTopology changes the topology only, over three      *)
(* nodes; SpecMoved applies get_moved_keys to pairs of distributions;      *)
(* SpecReads adds the read-only calls to Spec; SpecWeights drives a second *)
(* ring, `twin`, with the same calls and other node weights.               *)
(***************************************************************************)
EXTENDS Integers, Sequences, FiniteSets, TLC

\* ---------------------------------------------------------------- bounds
MaxHash     == 3          \* hash values range over 0..MaxHash
MaxRing     == 3          \* add_node is not called on a ring it would grow past this
MaxKeys     == 2          \* longest key list given to get_key_distribution

\* ------------------------------------------------------------ input sets
NodeIds       == {"a", "b", "c"}
ReplicaCounts == {1, 2}
Weights       == {1, 2}
HashFunctions == {"sha256", "md5"}

\* weight: float = 1.0
DefaultWeight == 1

\* Python's None, as it appears where a Node is expected.
None == [node_id |-> "None", replicas |-> 0, weight |-> 0]

\* Node.__init__
Node(node_id, replicas, weight) ==
  [node_id |-> node_id, replicas |-> replicas, weight |-> weight]

NodeObjects ==
  {Node(i, r, w) : i \in NodeIds, r \in ReplicaCounts, w \in Weights}

\* replica_id = f"{self.node_id}-{replica}"
ReplicaId(node_id, replica) == node_id \o "-" \o ToString(replica)

\* The nodes a caller registers: one node with one or two replicas and a
\* second node with one, all with the default weight.
Fleet ==
  {Node("a", 1, DefaultWeight), Node("a", 2, DefaultWeight),
   Node("b", 1, DefaultWeight)}

\* The nodes the caller of SpecTopology registers: one node with two
\* replicas and two nodes with one.
Cluster ==
  {Node("a", 2, DefaultWeight), Node("b", 1, DefaultWeight),
   Node("c", 1, DefaultWeight)}

ReplicaIdsOf(nodeSet) ==
  UNION {{ReplicaId(n.node_id, r) : r \in 0..(n.replicas - 1)} : n \in nodeSet}

ReplicaIds == ReplicaIdsOf(Fleet)

\* The key whose digest is h.
KeyAt(h) == "k" \o ToString(h)

Keys == {KeyAt(h) : h \in 0..MaxHash}

VARIABLES
  hash_function,   \* self.hash_function
  ring,            \* self.ring: sequence of <<hash_value, node>>
  nodes,           \* self.nodes: function node_id -> Node
  hash_to_node,    \* self.hash_to_node: function hash_value -> Node
  digest,          \* the sha256 digest of every replica identifier
  call,            \* the last call: [name, node, str]
  result,          \* the value the last call returned
  raised,          \* the exception the last call ended in, or "none"
  prev,            \* ring, nodes, hash_to_node as they were before the call
  snapshots,       \* the two distributions a caller holds: <<old, new>>
  twin             \* the fields of a second ring, driven with other weights

vars == <<hash_function, ring, nodes, hash_to_node, digest,
          call, result, raised, prev, snapshots, twin>>

NoError          == "none"
DuplicateError   == "ValueError: already exists in the ring"
UnsupportedError == "ValueError: Unsupported hash function"
TypeError        == "TypeError: '<' not supported"

\* ------------------------------------------------------------ dictionaries
EmptyDict == <<>>

DictSet(d, k, v) == [x \in (DOMAIN d) \cup {k} |-> IF x = k THEN v ELSE d[x]]

DictDel(d, k) == [x \in (DOMAIN d) \ {k} |-> d[x]]

\* ------------------------------------------------------------------ hashing
\* The value returned for an unsupported hash function stands for the
\* ValueError of the else branch.
Unsupported == 0 - 1

\* int(hashlib.sha256(value.encode()).hexdigest(), 16)
Sha256(value) ==
  IF value \in DOMAIN digest THEN digest[value]
  ELSE CHOOSE h \in 0..MaxHash : KeyAt(h) = value

\* Node._hash_string.  The fnv1a digest is a different function of the
\* string than the sha256 digest; it is modelled as a rotation of it.
HashString(value, hash_fn) ==
  IF hash_fn = "sha256" THEN Sha256(value)
  ELSE IF hash_fn = "fnv1a" THEN (Sha256(value) + 1) % (MaxHash + 1)
  ELSE Unsupported

\* ConsistentHashRing._hash_key
HashKey(key, hash_fn) ==
  IF hash_fn = "sha256" THEN Sha256(key)
  ELSE IF hash_fn = "fnv1a" THEN (Sha256(key) + 1) % (MaxHash + 1)
  ELSE Unsupported

\* A faulty get_hash_values whose loop stops one replica early.
GetHashValuesShort(node, hash_fn) ==
  LET values == [replica \in 1..(node.replicas - 1) |->
                   HashString(ReplicaId(node.node_id, replica - 1), hash_fn)]
  IN IF \E i \in 1..(node.replicas - 1) : values[i] = Unsupported
       THEN [raised |-> UnsupportedError, values |-> <<>>]
       ELSE [raised |-> NoError, values |-> values]

\* A faulty get_hash_values that scales the replica count by the weight.
GetHashValuesWeighted(node, hash_fn) ==
  LET count == node.replicas \div node.weight
      values == [replica \in 1..count |->
                   HashString(ReplicaId(node.node_id, replica - 1), hash_fn)]
  IN IF \E i \in 1..count : values[i] = Unsupported
       THEN [raised |-> UnsupportedError, values |-> <<>>]
       ELSE [raised |-> NoError, values |-> values]

\* Node.get_hash_values: one hash per replica, in replica order; the first
\* _hash_string call that raises ends the loop.
GetHashValues(node, hash_fn) ==
  LET values == [replica \in 1..node.replicas |->
                   HashString(ReplicaId(node.node_id, replica - 1), hash_fn)]
  IN IF \E i \in 1..node.replicas : values[i] = Unsupported
       THEN [raised |-> UnsupportedError, values |-> <<>>]
       ELSE [raised |-> NoError, values |-> values]

\* ------------------------------------------------- comparisons and bisect
\* Node.__eq__: equality by node_id alone; None equals only None.
NodeEq(n, m) ==
  IF n = None \/ m = None THEN n = m ELSE n.node_id = m.node_id

\* Python's x < y on the tuples (hash_value, node): the first elements
\* decide when they differ; equal first elements fall through to the second
\* elements, which are equal (then x < y is False) or raise TypeError,
\* because Node defines __eq__ and __hash__ but no ordering.
TupleLt(x, y) ==
  IF x[1] # y[1] THEN (IF x[1] < y[1] THEN "True" ELSE "False")
  ELSE IF NodeEq(x[2], y[2]) THEN "False"
  ELSE "TypeError"

\* Python's x == y on the tuples (hash_value, node), used by list.remove.
TupleEq(x, y) == x[1] = y[1] /\ NodeEq(x[2], y[2])

BisectRaised == 0 - 1

\* bisect.bisect_right(a, x, lo, hi) with 0-based lo, hi; BisectRaised when
\* a comparison raises.
RECURSIVE BisectRight(_, _, _, _)
BisectRight(a, x, lo, hi) ==
  IF lo < hi
    THEN LET mid == (lo + hi) \div 2
             lt  == TupleLt(x, a[mid + 1])
         IN IF lt = "TypeError" THEN BisectRaised
            ELSE IF lt = "True" THEN BisectRight(a, x, lo, mid)
            ELSE BisectRight(a, x, mid + 1, hi)
    ELSE lo

\* A faulty insort that appends instead of inserting in order.
InsortAppend(a, x) ==
  LET index == BisectRight(a, x, 0, Len(a))
  IN IF index = BisectRaised
       THEN [raised |-> TypeError, ring |-> a]
       ELSE [raised |-> NoError, ring |-> Append(a, x)]

\* A faulty insort that stores the element over its successor instead of
\* shifting the tail of the list.
InsortOverwrite(a, x) ==
  LET index == BisectRight(a, x, 0, Len(a))
  IN IF index = BisectRaised
       THEN [raised |-> TypeError, ring |-> a]
       ELSE [raised |-> NoError,
             ring |-> SubSeq(a, 1, index) \o <<x>> \o SubSeq(a, index + 2, Len(a))]

\* bisect.insort(self.ring, (hash_value, node))
Insort(a, x) ==
  LET index == BisectRight(a, x, 0, Len(a))
  IN IF index = BisectRaised
       THEN [raised |-> TypeError, ring |-> a]
       ELSE [raised |-> NoError,
             ring |-> SubSeq(a, 1, index) \o <<x>> \o SubSeq(a, index + 1, Len(a))]

\* list.remove(x): drops the first element equal to x; "ValueError" (which
\* the caller swallows) leaves the list as it is.
ListRemove(a, x) ==
  LET hits == {i \in 1..Len(a) : TupleEq(a[i], x)}
  IN IF hits = {} THEN a
     ELSE LET first == CHOOSE i \in hits : \A j \in hits : i <= j
          IN SubSeq(a, 1, first - 1) \o SubSeq(a, first + 1, Len(a))

\* ------------------------------------------------------------------ add_node
\* A faulty membership test that never finds the id.
IsRegisteredNever(registry, node_id) == FALSE

\* node.node_id in self.nodes
IsRegistered(registry, node_id) == node_id \in DOMAIN registry

\* The loop of add_node over hash_values, from index i on.  The index is
\* written before insort runs, so an insort that raises leaves it written.
RECURSIVE AddPositions(_, _, _, _, _)
AddPositions(r, h2n, node, hash_values, i) ==
  IF i > Len(hash_values)
    THEN [raised |-> NoError, ring |-> r, hash_to_node |-> h2n]
    ELSE LET hash_value == hash_values[i]
             h2n1 == DictSet(h2n, hash_value, node)
             ins  == Insort(r, <<hash_value, node>>)
         IN IF ins.raised # NoError
              THEN [raised |-> ins.raised, ring |-> r, hash_to_node |-> h2n1]
              ELSE AddPositions(ins.ring, h2n1, node, hash_values, i + 1)

\* ConsistentHashRing.add_node, as a function of the fields before the call.
add_node(r, registry, h2n, hash_fn, node) ==
  IF IsRegistered(registry, node.node_id)
    THEN [raised |-> DuplicateError, ring |-> r, nodes |-> registry,
          hash_to_node |-> h2n]
    ELSE LET registry1 == DictSet(registry, node.node_id, node)
             hv == GetHashValues(node, hash_fn)
         IN IF hv.raised # NoError
              THEN [raised |-> hv.raised, ring |-> r, nodes |-> registry1,
                    hash_to_node |-> h2n]
              ELSE LET out == AddPositions(r, h2n, node, hv.values, 1)
                   IN [raised |-> out.raised, ring |-> out.ring,
                       nodes |-> registry1, hash_to_node |-> out.hash_to_node]

\* --------------------------------------------------------------- remove_node
\* The loop of remove_node over hash_values, from index i on.
RECURSIVE RemovePositions(_, _, _, _, _)
RemovePositions(r, h2n, node, hash_values, i) ==
  IF i > Len(hash_values)
    THEN [ring |-> r, hash_to_node |-> h2n]
    ELSE LET hash_value == hash_values[i]
         IN IF hash_value \in DOMAIN h2n
              THEN RemovePositions(ListRemove(r, <<hash_value, node>>),
                                   DictDel(h2n, hash_value),
                                   node, hash_values, i + 1)
              ELSE RemovePositions(r, h2n, node, hash_values, i + 1)

\* A faulty remove_node that deletes the id without testing for it.
remove_node_unchecked(r, registry, h2n, hash_fn, node_id) ==
  IF node_id \notin DOMAIN registry
    THEN [raised |-> "KeyError", result |-> None, ring |-> r,
          nodes |-> registry, hash_to_node |-> h2n]
    ELSE LET node == registry[node_id]
             hv == GetHashValues(node, hash_fn)
         IN IF hv.raised # NoError
              THEN [raised |-> hv.raised, result |-> None, ring |-> r,
                    nodes |-> registry, hash_to_node |-> h2n]
              ELSE LET out == RemovePositions(r, h2n, node, hv.values, 1)
                   IN [raised |-> NoError, result |-> node, ring |-> out.ring,
                       nodes |-> DictDel(registry, node_id),
                       hash_to_node |-> out.hash_to_node]

\* ConsistentHashRing.remove_node, as a function of the fields before the call.
remove_node(r, registry, h2n, hash_fn, node_id) ==
  IF node_id \notin DOMAIN registry
    THEN [raised |-> NoError, result |-> None, ring |-> r,
          nodes |-> registry, hash_to_node |-> h2n]
    ELSE LET node == registry[node_id]
             hv == GetHashValues(node, hash_fn)
         IN IF hv.raised # NoError
              THEN [raised |-> hv.raised, result |-> None, ring |-> r,
                    nodes |-> registry, hash_to_node |-> h2n]
              ELSE LET out == RemovePositions(r, h2n, node, hv.values, 1)
                   IN [raised |-> NoError, result |-> node, ring |-> out.ring,
                       nodes |-> DictDel(registry, node_id),
                       hash_to_node |-> out.hash_to_node]

\* ---------------------------------------------------------- get_node_for_key
\* A faulty lookup that forgets to wrap and clamps to the last entry.
get_node_for_key_nowrap(r, hash_fn, key) ==
  IF Len(r) = 0
    THEN [raised |-> NoError, result |-> None]
    ELSE LET key_hash == HashKey(key, hash_fn)
         IN IF key_hash = Unsupported
              THEN [raised |-> UnsupportedError, result |-> None]
              ELSE LET index == BisectRight(r, <<key_hash, None>>, 0, Len(r))
                   IN IF index = BisectRaised
                        THEN [raised |-> TypeError, result |-> None]
                        ELSE LET wrapped == IF index >= Len(r) THEN Len(r) - 1
                                            ELSE index
                             IN [raised |-> NoError, result |-> r[wrapped + 1][2]]

\* ConsistentHashRing.get_node_for_key
get_node_for_key(r, hash_fn, key) ==
  IF Len(r) = 0
    THEN [raised |-> NoError, result |-> None]
    ELSE LET key_hash == HashKey(key, hash_fn)
         IN IF key_hash = Unsupported
              THEN [raised |-> UnsupportedError, result |-> None]
              ELSE LET index == BisectRight(r, <<key_hash, None>>, 0, Len(r))
                   IN IF index = BisectRaised
                        THEN [raised |-> TypeError, result |-> None]
                        ELSE LET wrapped == IF index >= Len(r) THEN 0 ELSE index
                             IN [raised |-> NoError, result |-> r[wrapped + 1][2]]

\* ------------------------------------------------------ distribution analysis
\* A distribution is a Python dict node_id -> list of keys; it is modelled as
\* the sequence of its items <<node_id, keys>> in insertion order.
ItemIndex(items, node_id) ==
  {i \in 1..Len(items) : items[i][1] = node_id}

\* distribution[node.node_id].append(key) on the defaultdict(list)
AppendKey(items, node_id, key) ==
  IF ItemIndex(items, node_id) = {}
    THEN Append(items, <<node_id, <<key>>>>)
    ELSE [i \in 1..Len(items) |->
            IF items[i][1] = node_id
              THEN <<node_id, Append(items[i][2], key)>>
              ELSE items[i]]

\* The loop of get_key_distribution over keys, from index i on.
RECURSIVE DistributeKeys(_, _, _, _, _)
DistributeKeys(r, hash_fn, keys, i, distribution) ==
  IF i > Len(keys)
    THEN [raised |-> NoError, distribution |-> distribution]
    ELSE LET out == get_node_for_key(r, hash_fn, keys[i])
         IN IF out.raised # NoError
              THEN [raised |-> out.raised, distribution |-> <<>>]
              ELSE IF out.result = None
                THEN DistributeKeys(r, hash_fn, keys, i + 1, distribution)
                ELSE DistributeKeys(r, hash_fn, keys, i + 1,
                       AppendKey(distribution, out.result.node_id, keys[i]))

\* ConsistentHashRing.get_key_distribution
get_key_distribution(r, hash_fn, keys) ==
  DistributeKeys(r, hash_fn, keys, 1, <<>>)

\* The reverse mapping key -> node_id built by the two nested loops of
\* get_moved_keys: a later item overwrites an earlier one for the same key.
KeyToNode(distribution) ==
  LET keysOf(i) == {distribution[i][2][j] : j \in 1..Len(distribution[i][2])}
      allKeys == UNION {keysOf(i) : i \in 1..Len(distribution)}
      last(key) == CHOOSE i \in 1..Len(distribution) :
                     /\ key \in keysOf(i)
                     /\ \A j \in 1..Len(distribution) : key \in keysOf(j) => j <= i
  IN [key \in allKeys |-> distribution[last(key)][1]]

\* dict.get(key): <<value>> when present, <<>> for None.
DictGet(d, k) == IF k \in DOMAIN d THEN <<d[k]>> ELSE <<>>

\* The loop `for key in all_keys` of get_moved_keys: every key of the set is
\* visited once; the order of a Python set is not fixed by the code, the
\* model visits the keys in the order CHOOSE gives.
RECURSIVE CollectMoved(_, _, _)
CollectMoved(all_keys, old_key_to_node, new_key_to_node) ==
  IF all_keys = {}
    THEN <<>>
    ELSE LET key == CHOOSE k \in all_keys : TRUE
             rest == CollectMoved(all_keys \ {key}, old_key_to_node, new_key_to_node)
         IN IF DictGet(old_key_to_node, key) # DictGet(new_key_to_node, key)
              THEN <<key>> \o rest
              ELSE rest

\* A faulty get_moved_keys that walks the keys of the old distribution only.
get_moved_keys_old_only(old_distribution, new_distribution) ==
  LET old_key_to_node == KeyToNode(old_distribution)
      new_key_to_node == KeyToNode(new_distribution)
  IN CollectMoved(DOMAIN old_key_to_node, old_key_to_node, new_key_to_node)

\* A faulty get_moved_keys that reports every key of the new distribution.
get_moved_keys_all_new(old_distribution, new_distribution) ==
  LET new_key_to_node == KeyToNode(new_distribution)
  IN CollectMoved(DOMAIN new_key_to_node, EmptyDict, new_key_to_node)

\* ConsistentHashRing.get_moved_keys: the list moved_keys.
get_moved_keys(old_distribution, new_distribution) ==
  LET old_key_to_node == KeyToNode(old_distribution)
      new_key_to_node == KeyToNode(new_distribution)
      all_keys == (DOMAIN old_key_to_node) \cup (DOMAIN new_key_to_node)
  IN CollectMoved(all_keys, old_key_to_node, new_key_to_node)

\* ConsistentHashRing.get_ring_state
get_ring_state(r) == [i \in 1..Len(r) |-> <<r[i][1], r[i][2].node_id>>]

\* ------------------------------------------------------------------- actions
\* The ring is driven by a caller that registers the nodes of Fleet within
\* MaxRing positions; an add of an id that is already registered may carry
\* any replica count and weight.
Fields == [ring |-> ring, nodes |-> nodes, hash_to_node |-> hash_to_node]

\* ConsistentHashRing.__init__: any name is stored, no field is populated.
\* The digests are drawn for the rings that consult them.
InitWith(replicaIds, held) ==
  /\ hash_function \in HashFunctions
  /\ digest \in IF hash_function = "sha256"
                 THEN [replicaIds -> 0..MaxHash]
                 ELSE {[s \in replicaIds |-> 0]}
  /\ ring = <<>>
  /\ nodes = EmptyDict
  /\ hash_to_node = EmptyDict
  /\ call = [name |-> "__init__", node |-> None, str |-> hash_function]
  /\ result = None
  /\ raised = NoError
  /\ prev = [ring |-> <<>>, nodes |-> EmptyDict, hash_to_node |-> EmptyDict]
  /\ snapshots \in held
  /\ twin = [ring |-> <<>>, nodes |-> EmptyDict, hash_to_node |-> EmptyDict]

Init == InitWith(ReplicaIds, {<<<<>>, <<>>>>})

\* ring.add_node(node)
Add(node) ==
  LET out == add_node(ring, nodes, hash_to_node, hash_function, node)
  IN /\ ring' = out.ring
     /\ nodes' = out.nodes
     /\ hash_to_node' = out.hash_to_node
     /\ call' = [name |-> "add_node", node |-> node, str |-> node.node_id]
     /\ result' = None
     /\ raised' = out.raised
     /\ prev' = Fields
     /\ UNCHANGED <<hash_function, digest, snapshots, twin>>

AddNode ==
  \E node \in NodeObjects :
    /\ \/ IsRegistered(nodes, node.node_id)
       \/ (Len(ring) + node.replicas <= MaxRing /\ node \in Fleet)
    /\ Add(node)

RemoveNode ==
  \E node_id \in NodeIds :
    LET out == remove_node(ring, nodes, hash_to_node, hash_function, node_id)
    IN /\ ring' = out.ring
       /\ nodes' = out.nodes
       /\ hash_to_node' = out.hash_to_node
       /\ call' = [name |-> "remove_node", node |-> None, str |-> node_id]
       /\ result' = out.result
       /\ raised' = out.raised
       /\ prev' = Fields
       /\ UNCHANGED <<hash_function, digest, snapshots, twin>>

\* A faulty lookup that caches its answer in the hash index.
GetNodeForKeyCaching ==
  \E key \in Keys :
    LET out == get_node_for_key(ring, hash_function, key)
    IN /\ call' = [name |-> "get_node_for_key", node |-> None, str |-> key]
       /\ result' = out.result
       /\ raised' = out.raised
       /\ prev' = Fields
       /\ hash_to_node' = IF out.raised = NoError /\ out.result # None
                            THEN DictSet(hash_to_node,
                                         HashKey(key, hash_function), out.result)
                            ELSE hash_to_node
       /\ UNCHANGED <<hash_function, ring, nodes, digest, snapshots, twin>>

GetNodeForKey ==
  \E key \in Keys :
    LET out == get_node_for_key(ring, hash_function, key)
    IN /\ call' = [name |-> "get_node_for_key", node |-> None, str |-> key]
       /\ result' = out.result
       /\ raised' = out.raised
       /\ prev' = Fields
       /\ UNCHANGED <<hash_function, ring, nodes, hash_to_node, digest, snapshots, twin>>

Next == AddNode \/ RemoveNode \/ GetNodeForKey

Spec == Init /\ [][Next]_vars

\* A caller that only changes the topology, over the three nodes of Cluster:
\* it registers nodes that are not registered and removes any id.
InitTopology == InitWith(ReplicaIdsOf(Cluster), {<<<<>>, <<>>>>})

AddNewNode ==
  \E node \in Cluster :
    /\ ~ IsRegistered(nodes, node.node_id)
    /\ Len(ring) + node.replicas <= MaxRing
    /\ Add(node)

NextTopology == AddNewNode \/ RemoveNode

SpecTopology == InitTopology /\ [][NextTopology]_vars

\* A caller that holds two distributions and compares them.  The
\* distributions are dicts over two ids and two keys, with lists of at most
\* MaxKeys keys.
SnapshotIds == {"a", "b"}

SnapshotKeys == {KeyAt(0), KeyAt(1)}

Snapshots ==
  LET lists == UNION {[1..n -> SnapshotKeys] : n \in 1..MaxKeys}
      items == {<<id, list>> : id \in SnapshotIds, list \in lists}
      dicts == UNION {[1..n -> items] : n \in 0..Cardinality(SnapshotIds)}
  IN {d \in dicts : \A i, j \in 1..Len(d) : d[i][1] = d[j][1] => i = j}

InitMoved == InitWith({}, Snapshots \X Snapshots)

GetMovedKeys ==
  /\ call' = [name |-> "get_moved_keys", node |-> None, str |-> ""]
  /\ result' = get_moved_keys(snapshots[1], snapshots[2])
  /\ raised' = NoError
  /\ prev' = Fields
  /\ UNCHANGED <<hash_function, ring, nodes, hash_to_node, digest, snapshots, twin>>

NextMoved == GetMovedKeys

SpecMoved == InitMoved /\ [][NextMoved]_vars

\* Two rings driven by the same calls: `twin` receives every node with a
\* weight of its own.
AddNodeTwice ==
  \E node \in Fleet, weight \in Weights :
    /\ ~ IsRegistered(nodes, node.node_id)
    /\ Len(ring) + node.replicas <= MaxRing
    /\ LET out == add_node(ring, nodes, hash_to_node, hash_function, node)
           other == add_node(twin.ring, twin.nodes, twin.hash_to_node,
                             hash_function, [node EXCEPT !.weight = weight])
       IN /\ ring' = out.ring
          /\ nodes' = out.nodes
          /\ hash_to_node' = out.hash_to_node
          /\ twin' = [ring |-> other.ring, nodes |-> other.nodes,
                      hash_to_node |-> other.hash_to_node]
          /\ call' = [name |-> "add_node", node |-> node, str |-> node.node_id]
          /\ result' = None
          /\ raised' = out.raised
          /\ prev' = Fields
          /\ UNCHANGED <<hash_function, digest, snapshots>>

RemoveNodeTwice ==
  \E node_id \in NodeIds :
    LET out == remove_node(ring, nodes, hash_to_node, hash_function, node_id)
        other == remove_node(twin.ring, twin.nodes, twin.hash_to_node,
                             hash_function, node_id)
    IN /\ ring' = out.ring
       /\ nodes' = out.nodes
       /\ hash_to_node' = out.hash_to_node
       /\ twin' = [ring |-> other.ring, nodes |-> other.nodes,
                   hash_to_node |-> other.hash_to_node]
       /\ call' = [name |-> "remove_node", node |-> None, str |-> node_id]
       /\ result' = out.result
       /\ raised' = out.raised
       /\ prev' = Fields
       /\ UNCHANGED <<hash_function, digest, snapshots>>

NextWeights == AddNodeTwice \/ RemoveNodeTwice

SpecWeights == Init /\ [][NextWeights]_vars

\* A caller that also reads: it asks for the distribution of short key
\* lists, for the ring state, and compares the two distributions it holds.
ReadKeys == {KeyAt(0), KeyAt(2)}

ReadLists == UNION {[1..n -> ReadKeys] : n \in 0..2}

HeldSnapshots ==
  {<< <<<<"a", <<KeyAt(0), KeyAt(1)>>>>>>,
      <<<<"a", <<KeyAt(0)>>>>, <<"b", <<KeyAt(1)>>>>>> >>}

InitReads == InitWith(ReplicaIds, HeldSnapshots)

GetKeyDistribution ==
  \E keys \in ReadLists :
    LET out == get_key_distribution(ring, hash_function, keys)
    IN /\ call' = [name |-> "get_key_distribution", node |-> None, str |-> "",
                   keys |-> keys]
       /\ result' = out.distribution
       /\ raised' = out.raised
       /\ prev' = Fields
       /\ UNCHANGED <<hash_function, ring, nodes, hash_to_node, digest, snapshots, twin>>

GetRingState ==
  /\ call' = [name |-> "get_ring_state", node |-> None, str |-> ""]
  /\ result' = get_ring_state(ring)
  /\ raised' = NoError
  /\ prev' = Fields
  /\ UNCHANGED <<hash_function, ring, nodes, hash_to_node, digest, snapshots, twin>>

NextReads ==
  \/ AddNode
  \/ RemoveNode
  \/ GetNodeForKey
  \/ GetKeyDistribution
  \/ GetMovedKeys
  \/ GetRingState

SpecReads == InitReads /\ [][NextReads]_vars

\* -------------------------------------------------------------------- claims
KeyLists == UNION {[1..n -> Keys] : n \in 0..MaxKeys}

Range(list) == {list[i] : i \in 1..Len(list)}

Owned(r, node_id) == {i \in 1..Len(r) : r[i][2].node_id = node_id}

PositionValues(r) == {r[i][1] : i \in 1..Len(r)}

\* The position value clockwise of h: the smallest one strictly greater than
\* h, or, when there is none, the smallest one of the table.
Clockwise(r, h) ==
  LET greater == {p \in PositionValues(r) : p > h}
      from == IF greater # {} THEN greater ELSE PositionValues(r)
  IN CHOOSE p \in from : \A q \in from : p <= q

\* result is the owner of every table entry at position value p, and there
\* is such an entry.
ReturnsOwnerAt(r, p, node) ==
  /\ \E i \in 1..Len(r) : r[i][1] = p
  /\ \A i \in 1..Len(r) : r[i][1] = p => NodeEq(node, r[i][2])

\* C1: after any sequence of add_node and remove_node calls every registered
\* node has exactly replica_count positions in the table and every position
\* of the table is owned by a registered node.  (Stated for rings with a
\* supported hash function.)
RegistryMatchesTable ==
  hash_function \in {"sha256", "fnv1a"}
  => /\ \A id \in DOMAIN nodes :
          Cardinality(Owned(ring, id)) = nodes[id].replicas
     /\ \A i \in 1..Len(ring) : ring[i][2].node_id \in DOMAIN nodes

\* C2: after any sequence of add_node and remove_node calls the position
\* table, and with it the result of get_ring_state, is sorted ascending by
\* position value.
RingSorted ==
  /\ \A i \in 1..(Len(ring) - 1) : ring[i][1] <= ring[i + 1][1]
  /\ LET state == get_ring_state(ring)
     IN \A i, j \in 1..Len(state) : i < j => state[i][1] <= state[j][1]

\* A successful add_node has put a position strictly between two others.
RingSortedWitness ==
  /\ call.name = "add_node" /\ raised = NoError
  /\ \E i \in 2..(Len(ring) - 1) :
       /\ ring[i][2].node_id = call.str
       /\ ring[i - 1][1] < ring[i][1]
       /\ ring[i][1] < ring[i + 1][1]

\* C3: on a populated ring, a key whose hash h equals no position value is
\* given to the owner of the smallest position greater than h, or, when h is
\* greater than every position, to the owner of the smallest position.
LookupClockwise ==
  LET h == HashKey(call.str, hash_function)
  IN (call.name = "get_node_for_key" /\ Len(ring) > 0
        /\ h \notin PositionValues(ring))
     => /\ raised = NoError
        /\ ReturnsOwnerAt(ring, Clockwise(ring, h), result)

\* A lookup wrapped around: the key hashes above every position and the
\* first and the last entry of the table have different owners.
LookupClockwiseWitness ==
  LET h == HashKey(call.str, hash_function)
  IN /\ call.name = "get_node_for_key" /\ raised = NoError
     /\ Len(ring) >= 2
     /\ \A p \in PositionValues(ring) : p < h
     /\ ~ NodeEq(ring[1][2], ring[Len(ring)][2])
     /\ NodeEq(result, ring[1][2])

\* C4: a key whose hash h equals a position value is given to the owner of
\* the next position strictly greater than h (wrapping to the first), never
\* an error, for every ring and key.
TieGoesToNextPosition ==
  LET h == HashKey(call.str, hash_function)
  IN (call.name = "get_node_for_key" /\ h \in PositionValues(ring))
     => /\ raised = NoError
        /\ ReturnsOwnerAt(ring, Clockwise(ring, h), result)

\* C5: add_node of an id that is already registered fails with the
\* duplicate error and leaves registry, position table and hash index as
\* they were.
DuplicateAddRejected ==
  (call.name = "add_node" /\ call.str \in DOMAIN prev.nodes)
  => /\ raised = DuplicateError
     /\ Fields = prev

\* A populated ring rejected a node whose replica count and weight differ
\* from those of the registered node with that id.
DuplicateAddRejectedWitness ==
  /\ call.name = "add_node" /\ raised = DuplicateError
  /\ call.str \in DOMAIN prev.nodes
  /\ call.node.replicas # prev.nodes[call.str].replicas
  /\ call.node.weight # prev.nodes[call.str].weight
  /\ Len(ring) > 0

\* C6: whenever add_node or remove_node ends in an error, the ring is left
\* exactly as it was before the call.
FailedCallChangesNothing ==
  (call.name \in {"add_node", "remove_node"} /\ raised # NoError)
  => Fields = prev

\* C7: no ring with an unsupported hash strategy exists on which add_node
\* or get_node_for_key runs.
NoCallOnUnsupportedRing ==
  call.name \in {"add_node", "get_node_for_key"}
  => hash_function \in {"sha256", "fnv1a"}

\* C8: remove_node of a registered id returns the removed node, removes the
\* id from the registry and every position of the node from the table, and
\* no lookup returns the removed node afterwards.  (Stated for rings with a
\* supported hash function.)
RemoveDropsEveryPosition ==
  (call.name = "remove_node" /\ call.str \in DOMAIN prev.nodes
     /\ hash_function \in {"sha256", "fnv1a"})
  => /\ raised = NoError
     /\ result = prev.nodes[call.str]
     /\ call.str \notin DOMAIN nodes
     /\ Owned(ring, call.str) = {}
     /\ \A key \in Keys :
          get_node_for_key(ring, hash_function, key).result.node_id # call.str

\* C9: remove_node of an id that is not registered returns None without
\* raising and leaves registry, position table and node count as they were.
RemoveUnregisteredIsNoop ==
  (call.name = "remove_node" /\ call.str \notin DOMAIN prev.nodes)
  => /\ raised = NoError
     /\ result = None
     /\ Fields = prev
     /\ Cardinality(DOMAIN nodes) = Cardinality(DOMAIN prev.nodes)

\* A populated ring was asked to remove an id it does not hold.
RemoveUnregisteredWitness ==
  /\ call.name = "remove_node" /\ result = None /\ raised = NoError
  /\ call.str \notin DOMAIN prev.nodes
  /\ Len(ring) > 0 /\ DOMAIN nodes # {}

\* C10: with D1 the distribution of a key list before remove_node(N) and D2
\* the one after, no key D1 gave to a node other than N changes owner, and
\* get_moved_keys(D1, D2) is exactly the set of keys D1 gave to N.
RemovalMovesOnlyRemovedKeys ==
  (call.name = "remove_node" /\ raised = NoError
     /\ call.str \in DOMAIN prev.nodes)
  => \A keys \in KeyLists :
       LET d1 == get_key_distribution(prev.ring, hash_function, keys)
           d2 == get_key_distribution(ring, hash_function, keys)
           before == KeyToNode(d1.distribution)
           after == KeyToNode(d2.distribution)
       IN (d1.raised = NoError /\ d2.raised = NoError)
          => /\ \A key \in DOMAIN before :
                  before[key] # call.str
                  => (key \in DOMAIN after /\ after[key] = before[key])
             /\ Range(get_moved_keys(d1.distribution, d2.distribution))
                  = {key \in DOMAIN before : before[key] = call.str}

\* The keys a lookup on table r answers without raising, and the key lists
\* over a set of keys.
Served(r) ==
  {key \in Keys : get_node_for_key(r, hash_function, key).raised = NoError}

ListsOf(keySet) == UNION {[1..n -> keySet] : n \in 0..MaxKeys}

\* C11: with D1 the distribution of a key list before a successful
\* add_node(N) and D2 the one after, every key of get_moved_keys(D1, D2) is
\* owned by N in D2, and a key that D2 gives to a node other than N has the
\* owner D1 gave it.  (Key lists whose distribution raises on either table
\* have no D1 or D2.)
AdditionMovesKeysOnlyToNewNode ==
  (call.name = "add_node" /\ raised = NoError)
  => \A keys \in ListsOf(Served(prev.ring) \cap Served(ring)) :
       LET d1 == get_key_distribution(prev.ring, hash_function, keys)
           d2 == get_key_distribution(ring, hash_function, keys)
           before == KeyToNode(d1.distribution)
           after == KeyToNode(d2.distribution)
       IN /\ d1.raised = NoError /\ d2.raised = NoError
          /\ \A key \in Range(get_moved_keys(d1.distribution, d2.distribution)) :
               key \in DOMAIN after /\ after[key] = call.str
          /\ \A key \in DOMAIN after :
               after[key] # call.str
               => (key \in DOMAIN before /\ before[key] = after[key])

\* A node joined a populated ring and took one key of a list from an older
\* node while another key of the list stayed where it was.
AdditionMovesKeysWitness ==
  /\ call.name = "add_node" /\ raised = NoError
  /\ Len(prev.ring) > 0
  /\ \E keys \in KeyLists :
       LET d1 == get_key_distribution(prev.ring, hash_function, keys)
           d2 == get_key_distribution(ring, hash_function, keys)
           before == KeyToNode(d1.distribution)
           after == KeyToNode(d2.distribution)
           moved == Range(get_moved_keys(d1.distribution, d2.distribution))
       IN /\ d1.raised = NoError /\ d2.raised = NoError
          /\ moved # {}
          /\ \E key \in DOMAIN after : key \notin moved /\ after[key] # call.str
          /\ \A key \in moved : key \in DOMAIN before /\ before[key] # call.str

\* C12: while at least one node is registered, get_node_for_key returns for
\* every key a node that is registered (never None, never a node absent from
\* the registry); with exactly one node registered it returns that node.
\* (Stated for rings with a supported hash function and keys whose hash
\* equals no position value.)
LookupReturnsRegisteredNode ==
  LET h == HashKey(call.str, hash_function)
  IN (call.name = "get_node_for_key" /\ DOMAIN nodes # {}
        /\ hash_function \in {"sha256", "fnv1a"}
        /\ h \notin PositionValues(ring))
     => /\ raised = NoError
        /\ result # None
        /\ result.node_id \in DOMAIN nodes
        /\ \A id \in DOMAIN nodes :
             Cardinality(DOMAIN nodes) = 1 => result.node_id = id

\* C13: on a ring with no node registered, get_node_for_key returns None
\* for every key without raising, and get_key_distribution returns the
\* empty mapping for every key list.
EmptyRingHasNoOwner ==
  (call.name = "get_node_for_key" /\ DOMAIN nodes = {})
  => /\ raised = NoError
     /\ result = None
     /\ \A keys \in KeyLists :
          get_key_distribution(ring, hash_function, keys)
            = [raised |-> NoError, distribution |-> <<>>]

\* The number of keys in the lists of a distribution.
RECURSIVE TotalLen(_)
TotalLen(items) ==
  IF items = <<>> THEN 0 ELSE Len(Head(items)[2]) + TotalLen(Tail(items))

\* C15: on a populated ring, get_key_distribution(keys) returns a mapping in
\* which the list of every id is the subsequence of keys that
\* get_node_for_key gives to that id (input order and duplicates kept), every
\* key's owner has a list, the list lengths sum to len(keys), and no list is
\* empty.
DistributionGroupsByOwner ==
  Len(ring) > 0
  => \A keys \in KeyLists :
       LET d == get_key_distribution(ring, hash_function, keys)
           items == d.distribution
           owner(key) == get_node_for_key(ring, hash_function, key).result.node_id
       IN /\ d.raised = NoError
          /\ \A m, n \in 1..Len(items) : items[m][1] = items[n][1] => m = n
          /\ \A n \in 1..Len(items) :
               LET mine(key) == owner(key) = items[n][1]
               IN /\ items[n][2] = SelectSeq(keys, mine)
                  /\ items[n][2] # <<>>
          /\ \A i \in 1..Len(keys) :
               \E n \in 1..Len(items) : items[n][1] = owner(keys[i])
          /\ TotalLen(items) = Len(keys)

\* The ids under which a distribution lists a key.
OwnersIn(distribution, key) ==
  {distribution[i][1] :
     i \in {j \in 1..Len(distribution) : key \in Range(distribution[j][2])}}

\* A distribution as get_key_distribution returns it: no key under two ids.
IsSnapshot(distribution) ==
  \A key \in SnapshotKeys : Cardinality(OwnersIn(distribution, key)) <= 1

\* C16: get_moved_keys(before, after) returns exactly the keys whose owner
\* id differs between the two snapshots, a key present in only one of them
\* included, and returns each of them once.
MovedKeysAreOwnerChanges ==
  (call.name = "get_moved_keys"
     /\ IsSnapshot(snapshots[1]) /\ IsSnapshot(snapshots[2]))
  => /\ raised = NoError
     /\ Range(result)
          = {key \in SnapshotKeys :
               OwnersIn(snapshots[1], key) # OwnersIn(snapshots[2], key)}
     /\ \A i, j \in 1..Len(result) : result[i] = result[j] => i = j

\* One key is in the new snapshot only and is reported; the other key is
\* listed twice under the same id in both snapshots and is not reported.
MovedKeysWitness ==
  /\ call.name = "get_moved_keys"
  /\ IsSnapshot(snapshots[1]) /\ IsSnapshot(snapshots[2])
  /\ Len(result) = 1
  /\ OwnersIn(snapshots[1], result[1]) = {}
  /\ OwnersIn(snapshots[2], result[1]) # {}
  /\ \E key \in SnapshotKeys, i \in 1..Len(snapshots[1]) :
       /\ key # result[1]
       /\ OwnersIn(snapshots[1], key) = OwnersIn(snapshots[2], key)
       /\ Len(SelectSeq(snapshots[1][i][2], LAMBDA k : k = key)) = 2

\* C17: get_moved_keys(D, D) is empty for every distribution D.
SameSnapshotMovesNothing ==
  (call.name = "get_moved_keys" /\ snapshots[1] = snapshots[2])
  => (raised = NoError /\ result = <<>>)

\* A distribution with two ids and a key listed twice was compared with
\* itself.
SameSnapshotWitness ==
  /\ call.name = "get_moved_keys" /\ result = <<>>
  /\ snapshots[1] = snapshots[2]
  /\ Len(snapshots[1]) = 2
  /\ \E i \in 1..2 : Len(snapshots[1][i][2]) = 2
                       /\ Cardinality(Range(snapshots[1][i][2])) = 1

\* C18: after any sequence of add_node and remove_node calls no two entries
\* of the position table have the same position value.
PositionsUnique ==
  \A i, j \in 1..Len(ring) : ring[i][1] = ring[j][1] => i = j

\* C19: when add_node of an unregistered node computes a position value
\* that the table already holds, from an earlier call or from an earlier
\* replica of the node, the call succeeds and the table then holds one entry
\* at that value, owned by the added node.  (Stated for rings with a
\* supported hash function.)
CollisionLastWriteWins ==
  (call.name = "add_node" /\ call.str \notin DOMAIN prev.nodes
     /\ hash_function \in {"sha256", "fnv1a"})
  => LET values == GetHashValues(call.node, hash_function).values
     IN \A n \in 1..Len(values) :
          (\/ values[n] \in PositionValues(prev.ring)
           \/ \E m \in 1..(n - 1) : values[m] = values[n])
          => /\ raised = NoError
             /\ Cardinality({i \in 1..Len(ring) : ring[i][1] = values[n]}) = 1
             /\ \A i \in 1..Len(ring) :
                  ring[i][1] = values[n] => ring[i][2].node_id = call.str

\* The entries of table r that do not belong to node_id.
WithoutNode(r, node_id) ==
  LET other(entry) == entry[2].node_id # node_id
  IN SelectSeq(r, other)

\* C20: after remove_node(B) of a registered node, every key that B owned
\* before the call is owned by the owner of the first position clockwise
\* from the key's hash that did not belong to B, and has no owner when B
\* held every position.
RemovedKeysGoToSuccessor ==
  (call.name = "remove_node" /\ raised = NoError
     /\ call.str \in DOMAIN prev.nodes)
  => \A key \in Keys :
       LET before == get_node_for_key(prev.ring, hash_function, key)
           after == get_node_for_key(ring, hash_function, key)
           others == WithoutNode(prev.ring, call.str)
       IN (before.raised = NoError /\ before.result.node_id = call.str)
          => /\ after.raised = NoError
             /\ IF others = <<>>
                  THEN after.result = None
                  ELSE ReturnsOwnerAt(others,
                         Clockwise(others, HashKey(key, hash_function)),
                         after.result)

\* C21: after any sequence of operations the position table is empty if and
\* only if no node is registered; so a lookup finds an owner exactly when a
\* node is registered.  (Stated for rings with a supported hash function.)
TableEmptyIffNoNodes ==
  hash_function \in {"sha256", "fnv1a"}
  => /\ (Len(ring) = 0) <=> (DOMAIN nodes = {})
     /\ \A key \in Keys :
          LET out == get_node_for_key(ring, hash_function, key)
          IN out.raised = NoError
             => ((out.result = None) <=> (DOMAIN nodes = {}))

ReadOnlyCalls ==
  {"get_node_for_key", "get_key_distribution", "get_moved_keys",
   "get_ring_state"}

\* C22: get_node_for_key, get_key_distribution, get_moved_keys and
\* get_ring_state leave the registry, the position table and the hash index
\* as they were before the call.
ReadsChangeNothing ==
  call.name \in ReadOnlyCalls => Fields = prev

\* A distribution was computed on a ring with two nodes, one list per
\* node, and the three fields are those of before the call.
ReadsChangeNothingWitness ==
  /\ call.name = "get_key_distribution" /\ raised = NoError
  /\ Cardinality(DOMAIN nodes) = 2
  /\ Len(result) = 2
  /\ Fields = prev

\* The number of entries of table r at position value h owned by node_id.
EntriesAt(r, h, node_id) ==
  Cardinality({i \in 1..Len(r) : r[i][1] = h /\ r[i][2].node_id = node_id})

\* C23: get_hash_values returns replica_count values, the i-th being the
\* ring's key hash of id + "-" + i, whatever the weight; and a successful
\* add_node of an unregistered node puts one table entry of the node at
\* each returned value and touches no other entry.
PositionsFromIdAndReplicas ==
  (call.name = "add_node" /\ raised = NoError
     /\ call.str \notin DOMAIN prev.nodes)
  => LET node == call.node
         out == GetHashValues(node, hash_function)
         expected == [i \in 1..node.replicas |->
                        HashKey(ReplicaId(node.node_id, i - 1), hash_function)]
     IN /\ out.raised = NoError
        /\ out.values = expected
        /\ \A w \in Weights :
             GetHashValues([node EXCEPT !.weight = w], hash_function) = out
        /\ Len(ring) = Len(prev.ring) + node.replicas
        /\ \A h \in 0..MaxHash :
             EntriesAt(ring, h, node.node_id)
               = EntriesAt(prev.ring, h, node.node_id)
                 + Cardinality({i \in 1..node.replicas : expected[i] = h})
        /\ WithoutNode(ring, node.node_id) = WithoutNode(prev.ring, node.node_id)

\* A node with two replicas joined a populated ring at two different
\* position values.
PositionsFromIdWitness ==
  /\ call.name = "add_node" /\ raised = NoError
  /\ call.str \notin DOMAIN prev.nodes
  /\ Len(prev.ring) > 0
  /\ call.node.replicas = 2
  /\ Cardinality({ring[i][1] : i \in Owned(ring, call.str)}) = 2

AddThenRemoveRestores ==
  (call.name = "add_node" /\ raised = NoError
     /\ call.str \notin DOMAIN prev.nodes)
  => LET out == remove_node(ring, nodes, hash_to_node, hash_function, call.str)
     IN /\ out.raised = NoError
        /\ out.ring = prev.ring
        /\ out.nodes = prev.nodes
        /\ out.hash_to_node = prev.hash_to_node

\* add_node(first) followed by add_node(second) on the current ring; a call
\* that raises leaves the caller with the ring as the call left it.
AddTwo(first, second) ==
  LET one == add_node(ring, nodes, hash_to_node, hash_function, first)
  IN add_node(one.ring, one.nodes, one.hash_to_node, hash_function, second)

\* C26: adding the same two unregistered nodes in either order gives the
\* same registered set, the same get_ring_state and the same owner for
\* every key.
OrderOfAddsIrrelevant ==
  \A n, m \in Fleet :
    (n.node_id # m.node_id
       /\ ~ IsRegistered(nodes, n.node_id) /\ ~ IsRegistered(nodes, m.node_id))
    => LET nm == AddTwo(n, m)
           mn == AddTwo(m, n)
       IN /\ DOMAIN nm.nodes = DOMAIN mn.nodes
          /\ get_ring_state(nm.ring) = get_ring_state(mn.ring)
          /\ \A key \in Keys :
               get_node_for_key(nm.ring, hash_function, key)
                 = get_node_for_key(mn.ring, hash_function, key)

\* C27: after any sequence of add_node and remove_node calls the key set of
\* hash_to_node is the set of position values of the table, and the node
\* indexed at a value owns a table entry at that value.
IndexMirrorsTable ==
  /\ DOMAIN hash_to_node = PositionValues(ring)
  /\ \A h \in DOMAIN hash_to_node :
       \E i \in 1..Len(ring) :
         ring[i][1] = h /\ NodeEq(ring[i][2], hash_to_node[h])

====
